---- MODULE Spec2Model ----
(***************************************************************************)
(* Model of package grace (yolo-pkgs/grace): Spawn, the supervised,        *)
(* deadline-bounded subprocess execution primitive.                        *)
(*                                                                         *)
(* Three processes take steps:                                             *)
(*   - the caller of Spawn (src/exec.go:59-125), position cpc;             *)
(*   - the background goroutine started at src/exec.go:79, position upc;   *)
(*   - the child process and the operating system (pipes, signals, the     *)
(*     context's deadline).                                                *)
(*                                                                         *)
(* The repository holds the same Spawn twice: src/exec.go (Output carries  *)
(* ExitCode, a Wait failure ends the goroutine) and the older text of      *)
(* src/unnamed/part_000 and part_001 (no ExitCode, every Wait error is     *)
(* sent on errChan and the goroutine goes on to send the Output).  The     *)
(* variable variant selects which text the goroutine runs.                 *)
(***************************************************************************)
EXTENDS Integers, Sequences, FiniteSets, TLC

\* ------------------------------------------------------------------ bounds
\* Longest child program: the number of one-byte writes the child performs.
MaxWrites == 2
\* Capacity of an OS pipe buffer, in bytes.
PipeCap == 1

\* Process ids the OS may assign to the child at cmd.Start.
PidSet == {7}
\* Exit statuses a child may end with (0, and a non-zero one).
ExitCodes == {0, 7}

VARIABLES
    variant,    \* "exec" (src/exec.go) or "legacy" (src/unnamed/part_000, part_001)
    deadline,   \* ctx: "never" (no deadline will fire), "armed", "expired" (ctx.Done() closed)
    cpc,        \* position of the caller inside Spawn
    ret,        \* what Spawn returned: [out |-> Output, err |-> error]
    pid,        \* cmd.Process.Pid (0 before cmd.Start)
    chanMade,   \* outChan and errChan exist (lines 76-77 were executed)
    outChan,    \* buffered channel of Output, capacity 1
    errChan,    \* buffered channel of error, capacity 1
    upc,        \* position of the goroutine of line 79
    stdOutput,  \* bytes io.ReadAll(stdOut) has accumulated
    stdError,   \* bytes io.ReadAll(stdErr) has accumulated
    rdErr,      \* the errors the two io.ReadAll calls returned
    waitErr,    \* the error cmd.Wait() returned
    exitCode,   \* local exitCode of the goroutine (line 90)
    child,      \* the child process, leader of its process group, with the
                \* descriptors it holds and the descendant it may have forked
    pipeOut,    \* bytes in the stdout pipe's OS buffer
    pipeErr,    \* bytes in the stderr pipe's OS buffer
    sent,       \* kill(2) calls the caller has made, in order
    delivered   \* channel sends the goroutine has completed, in order, each
                \* with the value sent and whether ctx was done at that moment

vars == <<variant, deadline, cpc, ret, pid, chanMade, outChan, errChan, upc,
          stdOutput, stdError, rdErr, waitErr, exitCode, child, pipeOut,
          pipeErr, sent, delivered>>

callerVars == <<cpc, ret, pid, chanMade, sent>>
unitVars   == <<upc, stdOutput, stdError, rdErr, waitErr, exitCode, delivered>>
osVars     == <<child, pipeOut, pipeErr>>

\* ------------------------------------------------------------------ errors
\* An error value is the set of the errors it wraps (errors.Is(e, x) is
\* x \in e); nil is the empty set.
Nil == {}
ErrTimeout    == "timeout"
ErrFailToKill == "failed to kill process"

Is(e, target) == target \in e

\* errors.Join(err, ErrTimeout, ErrFailToKill), line 123.
JoinNoMarker(err) == err \cup {ErrTimeout}
JoinKillFailure(err) == err \cup {ErrTimeout, ErrFailToKill}

\* ------------------------------------------------------------------ Output
\* type Output: StdOut, StdErr and (src/exec.go only) ExitCode.
Output(v, o, e, k) ==
    IF v = "exec" THEN [StdOut |-> o, StdErr |-> e, ExitCode |-> k]
                  ELSE [StdOut |-> o, StdErr |-> e]

\* Output{}
ZeroOutput(v) == Output(v, <<>>, <<>>, 0)

\* ------------------------------------------------------------------ child
\* A child program is a sequence of one-byte writes, each to fd 1 or fd 2,
\* followed by its end: exit(k), death by a signal it raises itself
\* (abort, a fault), or never ending.  The byte written by step i is i.
\* The child may close fd 1 or fd 2 once it has no write to it left, and it
\* may have forked a descendant: one more member of its process group,
\* which inherited both write ends and writes nothing.
\* state: "none" (not started), "running", "zombie" (terminated, waiting
\* to be reaped), "reaped" (by cmd.Wait), "gone" (terminated and discarded
\* by the kernel without a wait: the host ignores SIGCHLD).
Programs == UNION {[1..n -> {1, 2}] : n \in 0..MaxWrites}
Ends == {[kind |-> "exit", code |-> k] : k \in ExitCodes}
            \cup {[kind |-> "signal", code |-> -1], [kind |-> "forever", code |-> 0]}
\* What a process does with SIGTERM: die ("default"), or live on (it
\* ignores or handles the signal).  Spawn sends at most one SIGTERM that
\* is delivered, so the disposition of each member of the group shows, and
\* is drawn, at that delivery; term records the child's.
Dispositions == {"default", "ignore"}

\* desc: "none" (no descendant in the group), "holding" (alive, holds the
\* write ends), "detached" (alive, has closed or redirected them), "zombie"
\* (dead, not yet reaped by its parent).
\* stranger: once the group is gone and the child reaped, the OS may give
\* the id to an unrelated process that leads a group of its own.
Forks == {"none", "holding"}

NoChild == [state |-> "none", prog |-> <<>>, ip |-> 1,
            end |-> [kind |-> "forever", code |-> 0], term |-> "default",
            status |-> [kind |-> "none", code |-> 0],
            wroteOut |-> <<>>, wroteErr |-> <<>>, tick |-> 0,
            openOut |-> FALSE, openErr |-> FALSE, desc |-> "none",
            stranger |-> FALSE]

NewChild(p, e, f) == [NoChild EXCEPT !.state = "running", !.prog = p,
                                     !.end = e,
                                     !.openOut = TRUE, !.openErr = TRUE,
                                     !.desc = f]

\* The child itself still holds the write end of the pipe of fd.
LeaderHolds(fd) == IF fd = 1 THEN child.openOut ELSE child.openErr

DescAlive(c) == c.desc \in {"holding", "detached"}

\* io.ReadAll sees end-of-stream on the pipe of fd once every holder of
\* its write end has closed it or has terminated.
WriteEndClosed(fd) ==
    /\ child.state # "none"
    /\ ~LeaderHolds(fd)
    /\ child.desc # "holding"

\* The child's process group has a member: the leader, running or an
\* unreaped zombie, or a descendant, alive or an unreaped zombie.
OwnGroupExists == child.state \in {"running", "zombie"} \/ child.desc # "none"

\* -pid names a process group: the child's, or after it a stranger's.
GroupExists == OwnGroupExists \/ child.stranger

Init ==
    /\ variant \in {"exec", "legacy"}
    /\ deadline \in {"never", "armed", "expired"}
    /\ cpc = "StdoutPipe"
    /\ ret = [out |-> ZeroOutput(variant), err |-> Nil]
    /\ pid = 0
    /\ chanMade = FALSE
    /\ outChan = <<>>
    /\ errChan = <<>>
    /\ upc = "idle"
    /\ stdOutput = <<>>
    /\ stdError = <<>>
    /\ rdErr = [out |-> Nil, err |-> Nil]
    /\ waitErr = [kind |-> "unset", code |-> 0]
    /\ exitCode = 0
    /\ child = NoChild
    /\ pipeOut = <<>>
    /\ pipeErr = <<>>
    /\ sent = <<>>
    /\ delivered = <<>>


\* ------------------------------------------------------------------ OS
\* Wait statuses.
Exited(k) == [kind |-> "exit", code |-> k]
Signaled == [kind |-> "signaled", code |-> -1]

\* The child has terminated with status st and every descriptor it held
\* is closed: it is a zombie until cmd.Wait reaps it, or, on a host that
\* ignores SIGCHLD (auto), the kernel discards it at once.
Terminated(c, st, auto) ==
    [c EXCEPT !.state = IF auto THEN "gone" ELSE "zombie", !.status = st,
              !.openOut = FALSE, !.openErr = FALSE, !.tick = 0]

\* A signal reaches every member of the child's group: SIGKILL always
\* terminates it, SIGTERM terminates it unless its disposition is to
\* ignore or handle SIGTERM (d is the child's, dd its descendant's).  A
\* killed descendant is a zombie until its parent reaps it.  What a
\* stranger does with the signal is its own business.
DeliverSignal(c, sig, d, dd, auto) ==
    LET leader == IF c.state # "running" THEN c
                  ELSE IF sig = "SIGKILL" \/ d = "default"
                       THEN Terminated(c, Signaled, auto)
                       ELSE [c EXCEPT !.term = "ignore"]
    IN  [leader EXCEPT !.desc = IF DescAlive(c) /\ (sig = "SIGKILL" \/ dd = "default")
                                THEN "zombie" ELSE @]

\* errno of a failed kill(2): ESRCH when the group is gone, EPERM otherwise.
KillErrno == IF GroupExists THEN {"EPERM"} ELSE {"ESRCH"}

\* The child writes the next byte of its program; it blocks while the
\* pipe's buffer is full.
ChildWrite ==
    /\ child.state = "running"
    /\ child.ip <= Len(child.prog)
    /\ \/ /\ child.prog[child.ip] = 1
          /\ Len(pipeOut) < PipeCap
          /\ pipeOut' = Append(pipeOut, child.ip)
          /\ child' = [child EXCEPT !.ip = @ + 1,
                                    !.wroteOut = Append(@, child.ip)]
          /\ UNCHANGED pipeErr
       \/ /\ child.prog[child.ip] = 2
          /\ Len(pipeErr) < PipeCap
          /\ pipeErr' = Append(pipeErr, child.ip)
          /\ child' = [child EXCEPT !.ip = @ + 1,
                                    !.wroteErr = Append(@, child.ip)]
          /\ UNCHANGED pipeOut
    /\ UNCHANGED <<variant, deadline, outChan, errChan>>
    /\ UNCHANGED callerVars
    /\ UNCHANGED unitVars

\* The child ends on its own: exit(k), or death by a signal it raised.
ChildEnd ==
    /\ child.state = "running"
    /\ child.ip > Len(child.prog)
    /\ child.end.kind \in {"exit", "signal"}
    /\ \E auto \in BOOLEAN :
          child' = Terminated(child, IF child.end.kind = "exit"
                                     THEN Exited(child.end.code) ELSE Signaled,
                              auto)
    /\ UNCHANGED <<variant, deadline, outChan, errChan, pipeOut, pipeErr>>
    /\ UNCHANGED callerVars
    /\ UNCHANGED unitVars

\* A child that never ends keeps running (sleep, a loop).
ChildSpin ==
    /\ child.state = "running"
    /\ child.ip > Len(child.prog)
    /\ child.end.kind = "forever"
    /\ child' = [child EXCEPT !.tick = 1 - @]
    /\ UNCHANGED <<variant, deadline, outChan, errChan, pipeOut, pipeErr>>
    /\ UNCHANGED callerVars
    /\ UNCHANGED unitVars

ChildStep == ChildWrite \/ ChildEnd \/ ChildSpin

\* The child closes fd 1 or fd 2 while it runs; it writes to neither
\* afterwards.
ChildClose ==
    /\ child.state = "running"
    /\ \E fd \in {1, 2} :
          /\ LeaderHolds(fd)
          /\ \A i \in child.ip..Len(child.prog) : child.prog[i] # fd
          /\ child' = IF fd = 1 THEN [child EXCEPT !.openOut = FALSE]
                                ELSE [child EXCEPT !.openErr = FALSE]
    /\ UNCHANGED <<variant, deadline, outChan, errChan, pipeOut, pipeErr>>
    /\ UNCHANGED callerVars
    /\ UNCHANGED unitVars

\* The descendant closes (or redirects) the write ends it inherited.
DescDetach ==
    /\ child.desc = "holding"
    /\ child' = [child EXCEPT !.desc = "detached"]
    /\ UNCHANGED <<variant, deadline, outChan, errChan, pipeOut, pipeErr>>
    /\ UNCHANGED callerVars
    /\ UNCHANGED unitVars

\* The descendant ends on its own: it is a zombie until it is reaped.
DescEnd ==
    /\ DescAlive(child)
    /\ child' = [child EXCEPT !.desc = "zombie"]
    /\ UNCHANGED <<variant, deadline, outChan, errChan, pipeOut, pipeErr>>
    /\ UNCHANGED callerVars
    /\ UNCHANGED unitVars

\* The dead descendant is reaped by its parent (the child, or init once
\* the child is dead).
DescReap ==
    /\ child.desc = "zombie"
    /\ child' = [child EXCEPT !.desc = "none"]
    /\ UNCHANGED <<variant, deadline, outChan, errChan, pipeOut, pipeErr>>
    /\ UNCHANGED callerVars
    /\ UNCHANGED unitVars

\* The child is reaped or gone and its group has no member left: the OS
\* gives the id to an unrelated process, which makes itself the leader of
\* a process group.
Reuse ==
    /\ child.state \in {"reaped", "gone"}
    /\ ~GroupExists
    /\ child' = [child EXCEPT !.stranger = TRUE]
    /\ UNCHANGED <<variant, deadline, outChan, errChan, pipeOut, pipeErr>>
    /\ UNCHANGED callerVars
    /\ UNCHANGED unitVars

\* The stranger's group ends.
StrangerEnd ==
    /\ child.stranger
    /\ child' = [child EXCEPT !.stranger = FALSE]
    /\ UNCHANGED <<variant, deadline, outChan, errChan, pipeOut, pipeErr>>
    /\ UNCHANGED callerVars
    /\ UNCHANGED unitVars

\* What the child's program, its descendant and the rest of the system
\* are free to do or not.
ChildChoice == ChildClose \/ DescDetach \/ DescEnd \/ DescReap \/ Reuse
                   \/ StrangerEnd

\* The context's deadline passes: ctx.Done() is closed.
Expire ==
    /\ deadline = "armed"
    /\ deadline' = "expired"
    /\ UNCHANGED <<variant, outChan, errChan>>
    /\ UNCHANGED callerVars
    /\ UNCHANGED unitVars
    /\ UNCHANGED osVars

\* ------------------------------------------------------------------ caller
\* Lines 62-74: a failed launch step returns at once, a successful one
\* goes on to the next statement.
AfterLaunchIgnoringError(failed, next) == next
AfterLaunch(failed, next) == IF failed THEN "done" ELSE next

\* cmd.StdoutPipe(), lines 62-65.
StdoutPipe ==
    /\ cpc = "StdoutPipe"
    /\ \E failed \in BOOLEAN :
          /\ cpc' = AfterLaunch(failed, "StderrPipe")
          /\ ret' = IF failed
                    THEN [out |-> ZeroOutput(variant), err |-> {"stdout pipe"}]
                    ELSE ret
    /\ UNCHANGED <<variant, deadline, pid, chanMade, outChan, errChan, sent>>
    /\ UNCHANGED unitVars
    /\ UNCHANGED osVars

\* cmd.StderrPipe(), lines 67-70.
StderrPipe ==
    /\ cpc = "StderrPipe"
    /\ \E failed \in BOOLEAN :
          /\ cpc' = AfterLaunch(failed, "Start")
          /\ ret' = IF failed
                    THEN [out |-> ZeroOutput(variant), err |-> {"stderr pipe"}]
                    ELSE ret
    /\ UNCHANGED <<variant, deadline, pid, chanMade, outChan, errChan, sent>>
    /\ UNCHANGED unitVars
    /\ UNCHANGED osVars

\* cmd.Start(), lines 72-74: on success one live process exists, leader of
\* a new process group (Setpgid, line 60).
Start ==
    /\ cpc = "Start"
    /\ \E failed \in BOOLEAN :
          /\ cpc' = AfterLaunch(failed, "go")
          /\ IF failed
             THEN /\ ret' = [out |-> ZeroOutput(variant), err |-> {"start"}]
                  /\ UNCHANGED <<pid, child>>
             ELSE /\ \E p \in Programs, e \in Ends, f \in Forks, n \in PidSet :
                        /\ child' = NewChild(p, e, f)
                        /\ pid' = n
                  /\ UNCHANGED ret
    /\ UNCHANGED <<variant, deadline, chanMade, outChan, errChan, sent,
                   pipeOut, pipeErr>>
    /\ UNCHANGED unitVars

LaunchErrors == {"stdout pipe", "stderr pipe", "start"}

\* Lines 76-79: make both channels, start the goroutine.
ChanCap == 1

Go ==
    /\ cpc = "go"
    /\ chanMade' = TRUE
    /\ upc' = "readOut"
    /\ cpc' = "select"
    /\ UNCHANGED <<variant, deadline, ret, pid, outChan, errChan, sent,
                   stdOutput, stdError, rdErr, waitErr, exitCode, delivered>>
    /\ UNCHANGED osVars

\* select, lines 108-113.  A Go select with several ready cases takes any
\* one of them.  The caller may reach the select after the goroutine has
\* sent and after the deadline has passed (nothing orders line 108 before
\* them), so a buffered value and a closed ctx.Done() can both be ready.
SelectOut ==
    /\ cpc = "select"
    /\ outChan # <<>>
    /\ ret' = [out |-> Head(outChan), err |-> Nil]
    /\ outChan' = Tail(outChan)
    /\ cpc' = "done"
    /\ UNCHANGED <<variant, deadline, pid, chanMade, errChan, sent>>
    /\ UNCHANGED unitVars
    /\ UNCHANGED osVars

SelectErr ==
    /\ cpc = "select"
    /\ errChan # <<>>
    /\ ret' = [out |-> ZeroOutput(variant), err |-> Head(errChan)]
    /\ errChan' = Tail(errChan)
    /\ cpc' = "done"
    /\ UNCHANGED <<variant, deadline, pid, chanMade, outChan, sent>>
    /\ UNCHANGED unitVars
    /\ UNCHANGED osVars

SelectDone ==
    /\ cpc = "select"
    /\ deadline = "expired"
    /\ cpc' = "sigterm"
    /\ UNCHANGED <<variant, deadline, ret, pid, chanMade, outChan, errChan, sent>>
    /\ UNCHANGED unitVars
    /\ UNCHANGED osVars

\* The first argument of unix.Kill, lines 114 and 118: the negated pid,
\* which names the child's process group.
KillTargetLeaderOnly(p) == p
KillTarget(p) == -p

\* unix.Kill(target, sig): it fails when the group no longer exists, and
\* may fail for a reason the OS decides (EPERM); a successful call
\* delivers the signal.
KillThenReap(sig, ok) ==
    /\ ok => GroupExists
    /\ sent' = Append(sent, [sig |-> sig, target |-> -pid, ok |-> ok])
    /\ \E d \in Dispositions, dd \in Dispositions, auto \in BOOLEAN :
          child' = IF ok
                   THEN [DeliverSignal(child, sig, d, dd, auto) EXCEPT
                            !.state = IF @ = "zombie" THEN "reaped" ELSE @]
                   ELSE child
Kill(sig, ok) ==
    /\ ok => GroupExists
    /\ sent' = Append(sent, [sig |-> sig, target |-> KillTarget(pid), ok |-> ok])
    /\ \E d \in Dispositions, dd \in Dispositions, auto \in BOOLEAN :
          child' = IF ok THEN DeliverSignal(child, sig, d, dd, auto) ELSE child

\* Where the caller goes after the SIGTERM send, lines 114-118: it returns
\* when the send reported no error, and goes on to the SIGKILL send
\* otherwise; it waits for nothing.
AfterSigTermAwaitsExit(ok) == IF ok THEN "awaitExit" ELSE "sigkill"
AfterSigTerm(ok) == IF ok THEN "done" ELSE "sigkill"

\* Lines 114-116.
SigTerm ==
    /\ cpc = "sigterm"
    /\ \E ok \in BOOLEAN :
          /\ Kill("SIGTERM", ok)
          /\ IF ok
             THEN /\ ret' = [out |-> ZeroOutput(variant), err |-> {ErrTimeout}]
                  /\ cpc' = AfterSigTerm(ok)
             ELSE /\ cpc' = AfterSigTerm(ok)
                  /\ UNCHANGED ret
    /\ UNCHANGED <<variant, deadline, pid, chanMade, outChan, errChan,
                   pipeOut, pipeErr>>
    /\ UNCHANGED unitVars

\* Lines 118-123.
SigKill ==
    /\ cpc = "sigkill"
    /\ \E ok \in BOOLEAN :
          /\ Kill("SIGKILL", ok)
          /\ ret' = [out |-> ZeroOutput(variant),
                     err |-> IF ok THEN {ErrTimeout}
                                   ELSE JoinKillFailure(KillErrno)]
    /\ cpc' = "done"
    /\ UNCHANGED <<variant, deadline, pid, chanMade, outChan, errChan,
                   pipeOut, pipeErr>>
    /\ UNCHANGED unitVars

CallerStep == StdoutPipe \/ StderrPipe \/ Start \/ Go \/ SelectOut
                \/ SelectErr \/ SelectDone \/ SigTerm \/ SigKill


\* ------------------------------------------------------------------ goroutine
\* The record kept of a completed channel send.
Delivery(ch, v) == [chan |-> ch, val |-> v, ctxDone |-> (deadline = "expired")]

\* io.ReadAll(stdOut), line 80: one read(2) takes what the pipe holds.
ReadOutChunk ==
    /\ upc = "readOut"
    /\ pipeOut # <<>>
    /\ stdOutput' = stdOutput \o pipeOut
    /\ pipeOut' = <<>>
    /\ UNCHANGED <<variant, deadline, outChan, errChan, upc, stdError, rdErr,
                   waitErr, exitCode, delivered, child, pipeErr>>
    /\ UNCHANGED callerVars

\* io.ReadAll(stdOut) reaches end-of-stream: it returns a nil error.
ReadOutEOF ==
    /\ upc = "readOut"
    /\ pipeOut = <<>>
    /\ WriteEndClosed(1)
    /\ upc' = "readErr"
    /\ UNCHANGED <<variant, deadline, outChan, errChan, stdOutput, stdError,
                   rdErr, waitErr, exitCode, delivered>>
    /\ UNCHANGED callerVars
    /\ UNCHANGED osVars

\* A read of stdout fails: io.ReadAll returns what it has and the error;
\* line 81 takes the branch of line 82.
ReadOutFail ==
    /\ upc = "readOut"
    /\ rdErr' = [rdErr EXCEPT !.out = {"read stdout"}]
    /\ upc' = "sendOutErr"
    /\ UNCHANGED <<variant, deadline, outChan, errChan, stdOutput, stdError,
                   waitErr, exitCode, delivered>>
    /\ UNCHANGED callerVars
    /\ UNCHANGED osVars

\* Where the goroutine goes after the send of line 82, and of line 87:
\* there is no return after either, so it falls through to the next
\* statement.
AfterReadErrSend(next) == next

\* errChan <- err, line 82.  A send on a full channel blocks.
SendOutErr ==
    /\ upc = "sendOutErr"
    /\ Len(errChan) < ChanCap
    /\ errChan' = Append(errChan, rdErr.out)
    /\ delivered' = Append(delivered, Delivery("errChan", rdErr.out))
    /\ upc' = AfterReadErrSend("readErr")
    /\ UNCHANGED <<variant, deadline, outChan, stdOutput, stdError, rdErr,
                   waitErr, exitCode>>
    /\ UNCHANGED callerVars
    /\ UNCHANGED osVars

\* io.ReadAll(stdErr), line 85.
ReadErrChunk ==
    /\ upc = "readErr"
    /\ pipeErr # <<>>
    /\ stdError' = stdError \o pipeErr
    /\ pipeErr' = <<>>
    /\ UNCHANGED <<variant, deadline, outChan, errChan, upc, stdOutput, rdErr,
                   waitErr, exitCode, delivered, child, pipeOut>>
    /\ UNCHANGED callerVars

ReadErrEOF ==
    /\ upc = "readErr"
    /\ pipeErr = <<>>
    /\ WriteEndClosed(2)
    /\ upc' = "wait"
    /\ UNCHANGED <<variant, deadline, outChan, errChan, stdOutput, stdError,
                   rdErr, waitErr, exitCode, delivered>>
    /\ UNCHANGED callerVars
    /\ UNCHANGED osVars

ReadErrFail ==
    /\ upc = "readErr"
    /\ rdErr' = [rdErr EXCEPT !.err = {"read stderr"}]
    /\ upc' = "sendErrErr"
    /\ UNCHANGED <<variant, deadline, outChan, errChan, stdOutput, stdError,
                   waitErr, exitCode, delivered>>
    /\ UNCHANGED callerVars
    /\ UNCHANGED osVars

\* errChan <- err, line 87.
SendErrErr ==
    /\ upc = "sendErrErr"
    /\ Len(errChan) < ChanCap
    /\ errChan' = Append(errChan, rdErr.err)
    /\ delivered' = Append(delivered, Delivery("errChan", rdErr.err))
    /\ upc' = AfterReadErrSend("wait")
    /\ UNCHANGED <<variant, deadline, outChan, stdOutput, stdError, rdErr,
                   waitErr, exitCode>>
    /\ UNCHANGED callerVars
    /\ UNCHANGED osVars

\* What cmd.Wait() returns (os/exec): an OS error when the wait itself
\* fails, nil for exit status 0, and an *exec.ExitError for a non-zero exit
\* status and for death by a signal alike; ExitError.ExitCode() is the exit
\* status, and -1 for a process terminated by a signal.
WaitResult(status, failed) ==
    IF failed THEN [kind |-> "OSError", code |-> 0]
    ELSE IF status = Exited(0) THEN [kind |-> "nil", code |-> 0]
    ELSE [kind |-> "ExitError", code |-> status.code]

\* The error value of a Wait result.
WaitError(w) ==
    IF w.kind = "OSError" THEN {"wait"}
    ELSE IF w.kind = "ExitError" THEN {"exit error"}
    ELSE Nil

\* Lines 90-99 of src/exec.go: exitCode is 0, or ExitError.ExitCode().
ExitCodeDropped(w) == 0
ExitCodeOf(w) == IF w.kind = "ExitError" THEN w.code ELSE 0

\* Where the goroutine goes after cmd.Wait() returned w.  src/exec.go
\* (lines 92-99) sends the error of a Wait that failed otherwise than by an
\* ExitError and sends the Output in every other case; the older text
\* (part_000 lines 57-59) sends every non-nil error.
AfterWait(v, w) ==
    IF v = "exec"
    THEN IF w.kind = "OSError" THEN "sendWaitErr" ELSE "sendOut"
    ELSE IF w.kind = "nil" THEN "sendOut" ELSE "sendWaitErr"

\* cmd.Wait() closes the read ends StdoutPipe and StderrPipe made once it
\* has seen the child terminate: what a pipe still held is dropped.
PipeAfterWait(p) == <<>>

\* cmd.Wait(), line 92: it blocks until the child has terminated, reaps it
\* and closes both read ends.  It fails (wait4: ECHILD) when the kernel
\* has discarded the child: nothing is left to reap.
Wait ==
    /\ upc = "wait"
    /\ child.state \in {"zombie", "gone"}
    /\ LET failed == child.state = "gone"
       IN  /\ waitErr' = WaitResult(child.status, failed)
           /\ child' = IF failed THEN child ELSE [child EXCEPT !.state = "reaped"]
    /\ exitCode' = IF variant = "exec" THEN ExitCodeOf(waitErr') ELSE exitCode
    /\ upc' = AfterWait(variant, waitErr')
    /\ pipeOut' = PipeAfterWait(pipeOut)
    /\ pipeErr' = PipeAfterWait(pipeErr)
    /\ UNCHANGED <<variant, deadline, outChan, errChan, stdOutput, stdError,
                   rdErr, delivered>>
    /\ UNCHANGED callerVars

\* errChan <- err of the Wait error: src/exec.go lines 96-97 return after
\* it, the older text (part_000 line 58) goes on to line 61.
SendWaitErr ==
    /\ upc = "sendWaitErr"
    /\ Len(errChan) < ChanCap
    /\ errChan' = Append(errChan, WaitError(waitErr))
    /\ delivered' = Append(delivered, Delivery("errChan", WaitError(waitErr)))
    /\ upc' = IF variant = "exec" THEN "done" ELSE "sendOut"
    /\ UNCHANGED <<variant, deadline, outChan, stdOutput, stdError, rdErr,
                   waitErr, exitCode>>
    /\ UNCHANGED callerVars
    /\ UNCHANGED osVars

\* outChan <- Output{...}, lines 101-105; the goroutine ends.
SendOut ==
    /\ upc = "sendOut"
    /\ Len(outChan) < ChanCap
    /\ outChan' = Append(outChan, Output(variant, stdOutput, stdError, exitCode))
    /\ delivered' = Append(delivered,
                          Delivery("outChan", Output(variant, stdOutput, stdError, exitCode)))
    /\ upc' = "done"
    /\ UNCHANGED <<variant, deadline, errChan, stdOutput, stdError, rdErr,
                   waitErr, exitCode>>
    /\ UNCHANGED callerVars
    /\ UNCHANGED osVars

\* The goroutine's steps when no read fails.
UnitProgress == ReadOutChunk \/ ReadOutEOF \/ SendOutErr \/ ReadErrChunk
                  \/ ReadErrEOF \/ SendErrErr \/ Wait \/ SendWaitErr \/ SendOut

\* A read fails.
ReadFault == ReadOutFail \/ ReadErrFail

Next == CallerStep \/ UnitProgress \/ ReadFault \/ ChildStep \/ ChildChoice \/ Expire

Spec == Init /\ [][Next]_vars

\* The Go scheduler runs every runnable goroutine and the OS runs the
\* child: a step that stays possible is eventually taken.  Nothing obliges
\* a read to fail, the deadline to be one that fires, the child to close a
\* descriptor before it ends, or a descendant to close one or to end.
FairSpec == Spec /\ WF_vars(CallerStep) /\ WF_vars(UnitProgress) /\ WF_vars(ChildStep)


\* ------------------------------------------------------------------ claims
\* Spawn has returned to its caller.
Returned == cpc = "done"

\* cmd.Start succeeded and the goroutine was started.
Launched == upc # "idle"

\* Spawn returned on the deadline branch (lines 113-123): every path of
\* that branch calls unix.Kill at least once.
DeadlineBranch == sent # <<>>

NoReadFailed == rdErr.out = Nil /\ rdErr.err = Nil

\* Spawn returned a timeout without the kill-failure marker.
PlainTimeout == Returned /\ Is(ret.err, ErrTimeout) /\ ~Is(ret.err, ErrFailToKill)

\* No member of the child's process group is alive.
GroupDead == child.state # "running" /\ ~DescAlive(child)

\* C1 (as claimed): after Spawn has returned plain ErrTimeout, every member
\* of the child's process group has terminated or eventually terminates,
\* whatever it does with SIGTERM.
C1_NoSurvivorAfterPlainTimeout == PlainTimeout ~> GroupDead

\* The child writes a finite amount and exits, no descendant of it holds
\* the pipes, and no deadline will fire.
DrainCase ==
    /\ Launched
    /\ deadline = "never"
    /\ child.end.kind = "exit"
    /\ child.desc = "none"

\* Spawn returned success with everything the child's program writes.
CompleteSuccess ==
    /\ Returned
    /\ ret.err = Nil
    /\ child.ip > Len(child.prog)
    /\ ret.out.StdOut = child.wroteOut
    /\ ret.out.StdErr = child.wroteErr

\* C2 (as claimed): for a child that writes a finite amount to stdout and
\* stderr, in any order and volume, and exits, with no deadline firing,
\* Spawn eventually returns success with the complete output, unless a
\* read or the wait itself failed.
C2_DrainBeforeDeadlock ==
    DrainCase ~> (CompleteSuccess \/ ~NoReadFailed \/ waitErr.kind = "OSError")

\* C3: in src/exec.go, when the child ended through an exit status k that
\* Wait reported, no pipe read failed and the deadline has not fired, a
\* Spawn that has returned has returned a nil error and the Output made of
\* exactly the bytes the child wrote to stdout, the bytes it wrote to
\* stderr, and k as ExitCode, also when k is not zero.
C3_ExitStatusIsSuccess ==
    ( /\ variant = "exec"
      /\ Returned
      /\ Launched
      /\ deadline # "expired"
      /\ NoReadFailed
      /\ child.status.kind = "exit"
      /\ waitErr.kind \in {"nil", "ExitError"} )
    => /\ ret.err = Nil
       /\ ret.out = [StdOut |-> child.wroteOut, StdErr |-> child.wroteErr,
                     ExitCode |-> child.status.code]
       /\ child.ip > Len(child.prog)

\* C3 witness: a child that wrote to stdout and to stderr, more in all
\* than a pipe holds, and exited with status 7, and Spawn returned success.
C3_Witness ==
    /\ variant = "exec"
    /\ Returned
    /\ deadline # "expired"
    /\ NoReadFailed
    /\ child.status = Exited(7)
    /\ ret.err = Nil
    /\ ret.out.ExitCode = 7
    /\ ret.out.StdOut # <<>>
    /\ ret.out.StdErr # <<>>
    /\ Len(ret.out.StdOut) + Len(ret.out.StdErr) > PipeCap

\* C4 (as claimed): once the goroutine has completed a send while the
\* deadline had not yet expired, Spawn never takes the deadline branch: it
\* sends no signal, returns no timeout, and returns the result delivered.
C4_DeliveredResultBeatsDeadline ==
    (delivered # <<>> /\ ~delivered[1].ctxDone)
    => /\ sent = <<>>
       /\ cpc \notin {"sigterm", "sigkill"}
       /\ Returned => /\ ~Is(ret.err, ErrTimeout)
                      /\ \E i \in DOMAIN delivered :
                            IF delivered[i].chan = "outChan"
                            THEN ret.err = Nil /\ ret.out = delivered[i].val
                            ELSE ret.err = delivered[i].val

\* C5: the first kill of the deadline branch is SIGTERM to the negated
\* pid, nothing is sent before the branch is entered, and when that first
\* send succeeded Spawn has returned plain ErrTimeout with a zero Output
\* having sent nothing else.
C5_TermSentThenTimeout ==
    /\ cpc = "sigterm" => sent = <<>>
    /\ sent # <<>> => /\ sent[1].sig = "SIGTERM"
                      /\ sent[1].target = -pid
                      /\ pid \in PidSet
    /\ (sent # <<>> /\ sent[1].ok)
         => /\ Returned
            /\ Len(sent) = 1
            /\ ret = [out |-> ZeroOutput(variant), err |-> {ErrTimeout}]

\* C5 witness: Spawn returned ErrTimeout after a successful SIGTERM while
\* the child is still running and the goroutine has delivered nothing.
C5_Witness ==
    /\ Returned
    /\ Len(sent) = 1
    /\ sent[1].ok
    /\ ret.err = {ErrTimeout}
    /\ child.state = "running"
    /\ upc \in {"readOut", "readErr"}
    /\ delivered = <<>>

\* C6: SIGKILL is sent only as the second kill, after a SIGTERM whose send
\* failed, and to the same negated pid; a failed SIGTERM is always followed
\* by SIGKILL; a successful SIGKILL gives plain ErrTimeout, a failed one the
\* error joining the OS error, ErrTimeout and ErrFailToKill.  Every return
\* of the deadline branch matches ErrTimeout, and a returned error matches
\* ErrFailToKill exactly when both sends failed.
C6_EscalationAndMarkers ==
    /\ Len(sent) <= 2
    /\ \A i \in DOMAIN sent :
          sent[i].sig = "SIGKILL"
             => /\ i = 2
                /\ sent[1].sig = "SIGTERM"
                /\ ~sent[1].ok
                /\ sent[2].target = sent[1].target
                /\ sent[2].target = -pid
    /\ (sent # <<>> /\ ~sent[1].ok)
          => \/ cpc = "sigkill" /\ Len(sent) = 1
             \/ Returned /\ Len(sent) = 2 /\ sent[2].sig = "SIGKILL"
    /\ (Len(sent) = 2 /\ sent[2].ok)
          => Returned /\ ret = [out |-> ZeroOutput(variant), err |-> {ErrTimeout}]
    /\ (Len(sent) = 2 /\ ~sent[2].ok)
          => /\ Returned
             /\ ret.out = ZeroOutput(variant)
             /\ \E errno \in {"EPERM", "ESRCH"} :
                   ret.err = {errno, ErrTimeout, ErrFailToKill}
    /\ (Returned /\ DeadlineBranch) => Is(ret.err, ErrTimeout)
    /\ Returned => (Is(ret.err, ErrFailToKill)
                      <=> (Len(sent) = 2 /\ ~sent[1].ok /\ ~sent[2].ok))

\* C6 witness: both sends failed and Spawn returned the composite error.
C6_Witness ==
    /\ Returned
    /\ Len(sent) = 2
    /\ ~sent[1].ok
    /\ ~sent[2].ok
    /\ Is(ret.err, ErrTimeout)
    /\ Is(ret.err, ErrFailToKill)

\* C7 (as claimed): the goroutine completes one channel send in all, and
\* has ended as soon as it has completed one.
C7_ExactlyOneDelivery ==
    /\ Len(delivered) <= 1
    /\ delivered # <<>> => upc = "done"
    /\ upc = "done" => Len(delivered) = 1

\* C8 (as claimed): once a read of stdout or of stderr has failed, the
\* goroutine sends that error and stops: it never reaches cmd.Wait and
\* sends nothing but the read error.
C8_ReadFailureStopsUnit ==
    ~NoReadFailed
    => /\ upc \in {"sendOutErr", "sendErrErr", "done"}
       /\ waitErr.kind = "unset"
       /\ Len(delivered) <= 1
       /\ \A i \in DOMAIN delivered : delivered[i].val \in {rdErr.out, rdErr.err}

\* C9 (as claimed): in src/exec.go, when no read failed, the deadline
\* branch was not taken and Wait reported anything but an exit status (the
\* child was killed by a signal, or Wait failed), the goroutine delivered
\* an error and a Spawn that returned has returned an error.
C9_NonExitWaitIsError ==
    ( /\ variant = "exec"
      /\ NoReadFailed
      /\ ~DeadlineBranch
      /\ waitErr.kind # "unset"
      /\ (waitErr.kind = "OSError" \/ child.status.kind = "signaled") )
    => /\ \A i \in DOMAIN delivered : delivered[i].chan = "errChan"
       /\ Returned => ret.err # Nil

\* C10: when a launch step failed, Spawn has returned that error with a
\* zero Output; no goroutine runs, no channel exists, nothing was sent on
\* one, no signal was sent, and (a failed launch leaves no process) no
\* child exists.
C10_LaunchFailureReturnsAtOnce ==
    (ret.err \cap LaunchErrors # {})
    => /\ Returned
       /\ Cardinality(ret.err) = 1
       /\ ret.out = ZeroOutput(variant)
       /\ upc = "idle"
       /\ ~chanMade
       /\ outChan = <<>> /\ errChan = <<>>
       /\ delivered = <<>>
       /\ sent = <<>>
       /\ child.state = "none"

\* C10 witness: cmd.Start failed after both pipes were made.
C10_Witness ==
    /\ Returned
    /\ ret.err = {"start"}
    /\ upc = "idle"


\* The signals of one name among the kills sent.
SentOf(sig) == {i \in DOMAIN sent : sent[i].sig = sig}

\* C11: at most one SIGTERM and one SIGKILL are ever sent; once a signal
\* has been dispatched the caller is either about to send the SIGKILL or
\* has returned, never waiting on the goroutine or the process; and once
\* the deadline has expired Spawn returns, whatever the child does and
\* however the sends end.
C11_ReturnsAfterDispatch ==
    /\ [](/\ Cardinality(SentOf("SIGTERM")) <= 1
          /\ Cardinality(SentOf("SIGKILL")) <= 1
          /\ Len(sent) <= 2
          /\ sent # <<>> => cpc \in {"sigkill", "done"}
          /\ (Len(sent) = 2 \/ (sent # <<>> /\ sent[1].ok)) => Returned)
    /\ (deadline = "expired") ~> Returned

\* C11 witness: Spawn returned on the deadline branch while a child that
\* ignores SIGTERM and never ends is running and the goroutine is still
\* reading stdout.
C11_Witness ==
    /\ Returned
    /\ DeadlineBranch
    /\ child.state = "running"
    /\ child.end.kind = "forever"
    /\ child.term = "ignore"
    /\ upc = "readOut"


\* C12 (as claimed): in src/exec.go a Spawn that returned a nil error (an
\* Output with its exit code) did so only after Wait returned an exit
\* status and without the caller having sent a signal; a call that sent a
\* signal returned an error.
C12_SuccessOnlyAfterExitStatus ==
    /\ (variant = "exec" /\ Returned /\ Launched /\ ret.err = Nil)
          => /\ waitErr.kind \in {"nil", "ExitError"}
             /\ child.status.kind = "exit"
             /\ ret.out.ExitCode = child.status.code
             /\ sent = <<>>
    /\ (Returned /\ sent # <<>>) => ret.err # Nil


\* ------------------------------------------------------------------ RunTimedSh
\* func (o Output) Combine(), lines 28-30.
Combine(o) == o.StdOut \o o.StdErr

\* RunTimedSh, lines 33-42, applied to what its call of Spawn returned:
\* the empty string and the error when Spawn failed, the combined output
\* and nil otherwise.
RunTimedShDropsErr(r) == [text |-> Combine(r.out), err |-> Nil]
RunTimedSh(r) ==
    IF r.err # Nil THEN [text |-> <<>>, err |-> r.err]
                   ELSE [text |-> Combine(r.out), err |-> Nil]

\* C13: a Spawn that returned a non-nil error returned the zero Output,
\* and RunTimedSh then returns that error with the empty string; a return
\* on the deadline branch, and any return made before Wait returned with
\* no read having failed (the command outlived the deadline), gives
\* RunTimedSh an error matching ErrTimeout and the empty string.
C13_ErrorMeansZeroOutput ==
    /\ (Returned /\ ret.err # Nil)
          => /\ ret.out.StdOut = <<>>
             /\ ret.out.StdErr = <<>>
             /\ variant = "exec" => ret.out.ExitCode = 0
             /\ RunTimedSh(ret) = [text |-> <<>>, err |-> ret.err]
    /\ (Returned /\ DeadlineBranch)
          => /\ Is(RunTimedSh(ret).err, ErrTimeout)
             /\ RunTimedSh(ret).text = <<>>
    /\ (Returned /\ Launched /\ waitErr.kind = "unset" /\ NoReadFailed)
          => /\ Is(RunTimedSh(ret).err, ErrTimeout)
             /\ RunTimedSh(ret).text = <<>>

\* C13 witness: Spawn returned plain ErrTimeout although the goroutine had
\* already captured output of the still running child; RunTimedSh returns
\* the empty string.
C13_Witness ==
    /\ Returned
    /\ PlainTimeout
    /\ child.state = "running"
    /\ stdOutput # <<>>
    /\ RunTimedSh(ret) = [text |-> <<>>, err |-> {ErrTimeout}]


\* The read of the pipe of fd has returned: with a failure, or at
\* end-of-stream (nothing left in the pipe and no writer left).
ReadReturned(fd) ==
    IF fd = 1 THEN rdErr.out # Nil \/ (pipeOut = <<>> /\ WriteEndClosed(1))
              ELSE rdErr.err # Nil \/ (pipeErr = <<>> /\ WriteEndClosed(2))

\* cmd.Wait() returns in this step: the goroutine records the exit.
WaitReturns == waitErr.kind = "unset" /\ waitErr'.kind # "unset"

\* C14 (as claimed): the goroutine reads stderr only after the stdout read
\* has returned (at end-of-stream or with a failure) and calls Wait only
\* after both reads have returned, and at the moment Wait returns (the
\* process is recorded as exited) neither pipe holds unread data.
C14_WaitAfterBothDrained ==
    /\ []((stdError # <<>> \/ rdErr.err # Nil)
            => upc \notin {"idle", "readOut", "sendOutErr"})
    /\ [](upc \in {"readErr", "sendErrErr"} => ReadReturned(1))
    /\ [](upc = "wait" => ReadReturned(1) /\ ReadReturned(2))
    /\ [](waitErr.kind # "unset" => upc \in {"sendWaitErr", "sendOut", "done"})
    /\ [][WaitReturns => (pipeOut = <<>> /\ pipeErr = <<>>)]_vars


\* C15 (as claimed): when a pipe read has failed and the deadline has not
\* expired, a Spawn that returned has returned that read error, never a
\* success Output.
C15_ReadErrorReachesCaller ==
    (Returned /\ Launched /\ deadline # "expired" /\ ~NoReadFailed)
    => /\ ret.err # Nil
       /\ ret.err \in {rdErr.out, rdErr.err}


\* A step of the caller on the deadline branch: taking the case of line
\* 113, or one of the two kills.
DeadlineBranchStep ==
    /\ cpc' # cpc
    /\ cpc' = "sigterm" \/ cpc \in {"sigterm", "sigkill"}

\* C16: a step of the deadline branch does nothing but a kill: both pipes,
\* both channels and all of the goroutine's state are unchanged, the child
\* is not reaped (no Wait) and changes only by the signal delivered; once
\* Spawn has returned its result never changes; and on the deadline branch
\* the caller has received nothing, so every value the goroutine has sent
\* still sits in its channel.
C16_DeadlineBranchOnlyKills ==
    /\ [][DeadlineBranchStep
            => /\ UNCHANGED <<pipeOut, pipeErr, outChan, errChan>>
               /\ UNCHANGED unitVars
               /\ (child'.state = "reaped") <=> (child.state = "reaped")
               /\ child' \in {child} \cup
                     {DeliverSignal(child, sig, d, dd, auto) :
                         sig \in {"SIGTERM", "SIGKILL"}, d \in Dispositions,
                         dd \in Dispositions, auto \in BOOLEAN}
               /\ Len(sent') <= Len(sent) + 1]_vars
    /\ [][Returned => (ret' = ret /\ cpc' = cpc /\ sent' = sent)]_vars
    /\ [](DeadlineBranch => Len(outChan) + Len(errChan) = Len(delivered))

\* C16 witness: after a timeout return the goroutine went on, finished and
\* left an Output in outChan that nobody receives.
C16_Witness ==
    /\ Returned
    /\ DeadlineBranch
    /\ Is(ret.err, ErrTimeout)
    /\ upc = "done"
    /\ outChan # <<>>
    /\ Len(delivered) = 1


\* C17 (as claimed): no kill is sent once the goroutine's cmd.Wait() has
\* returned (the child is reaped and its pid free for reuse).
C17_NoKillAfterWait ==
    [][Len(sent') > Len(sent) => waitErr.kind = "unset"]_vars


\* The goroutine is at a channel send whose channel is full.
SendBlocked ==
    \/ upc \in {"sendOutErr", "sendErrErr", "sendWaitErr"} /\ Len(errChan) >= ChanCap
    \/ upc = "sendOut" /\ Len(outChan) >= ChanCap

\* C18 (as claimed): the goroutine is never left at a send that cannot
\* complete: once Spawn has returned nobody receives any more, so a send
\* on a full channel would block for ever.
C18_NoSendBlocksForever == ~(Returned /\ SendBlocked)

====
